---------------------------- MODULE Spec2Model ----------------------------
(***************************************************************************)
(* Model of the Monero daemon RPC client (src/index.js): the rpcClient     *)
(* class, its dispatcher _send, the two request builders and the           *)
(* argument-validating wrapper getBlockTemplate, together with the parts   *)
(* of the JavaScript run time they rely on (typeof, truthiness, property   *)
(* access, JSON.stringify, JSON.parse, promise settlement).                *)
(*                                                                         *)
(* JavaScript values are records [t |-> tag, v |-> payload]; the tag       *)
(* fixes the shape of the payload.  A JavaScript string is a sequence of   *)
(* text chunks (TLA+ strings); concatenation of strings is \o on these     *)
(* sequences.  JSON text is such a string whose chunks are JSON tokens:    *)
(* punctuation, decimal digits, keywords, the double quote and the         *)
(* chunks of a quoted string.                                              *)
(***************************************************************************)
EXTENDS Integers, Sequences, FiniteSets, TLC

(***************************************************************************)
(* JavaScript values                                                       *)
(***************************************************************************)
JSUndefined == [t |-> "undefined", v |-> <<>>]

JSNull == [t |-> "null", v |-> <<>>]

JSBool(b) == [t |-> "boolean", v |-> b]

\* a number: sign, whole part and the decimal digits of the fractional part
JSNum(neg, whole, frac) == [t |-> "number", v |-> <<neg, whole, frac>>]

JSInt(n) == JSNum(FALSE, n, <<>>)

JSStr(chunks) == [t |-> "string", v |-> chunks]

JSArr(elems) == [t |-> "array", v |-> elems]

\* an object: its own enumerable properties <<key, value>> in insertion order
JSObj(fields) == [t |-> "object", v |-> fields]

JSFunction == [t |-> "function", v |-> <<>>]

\* a property value that refers back to an enclosing object (a cycle)
JSBackRef == [t |-> "backref", v |-> <<>>]

\* an Error instance: constructor name and message
JSError(name, message) == [t |-> "error", v |-> <<name, message>>]

\* the typeof operator
TypeOf(x) ==
  CASE x.t = "undefined" -> "undefined"
    [] x.t = "boolean" -> "boolean"
    [] x.t = "number" -> "number"
    [] x.t = "string" -> "string"
    [] x.t = "function" -> "function"
    [] OTHER -> "object"

\* ToBoolean, as applied by !x, if (x) and x ? a : b
Truthy(x) ==
  CASE x.t \in {"undefined", "null"} -> FALSE
    [] x.t = "boolean" -> x.v
    [] x.t = "number" -> x.v[2] # 0 \/ x.v[3] # <<>>
    [] x.t = "string" -> x.v # <<>>
    [] OTHER -> TRUE

\* x.key throws a TypeError when x is null or undefined
CanGetProp(x) == x.t \notin {"undefined", "null"}

RECURSIVE Lookup(_, _)
Lookup(fields, key) ==
  IF fields = <<>> THEN JSUndefined
  ELSE IF fields[Len(fields)][1] = key THEN fields[Len(fields)][2]
  ELSE Lookup(SubSeq(fields, 1, Len(fields) - 1), key)

\* x.key where x is neither null nor undefined
GetProp(x, key) == IF x.t = "object" THEN Lookup(x.v, key) ELSE JSUndefined

HasProp(x, key) == x.t = "object" /\ \E i \in 1..Len(x.v) : x.v[i][1] = key

\* Number.isInteger
NumberIsInteger(x) == x.t = "number" /\ x.v[3] = <<>>

\* String(err) of an Error instance: "name: message"
ErrorToString(e) == <<e.v[1], ": ">> \o e.v[2]

\* new Error(err): the message is String(err)
NewError(err) ==
  JSError("Error", IF err.t = "error" THEN ErrorToString(err) ELSE err.v)


(***************************************************************************)
(* JSON.stringify                                                          *)
(***************************************************************************)
DigitText(d) ==
  CASE d = 0 -> "0" [] d = 1 -> "1" [] d = 2 -> "2" [] d = 3 -> "3"
    [] d = 4 -> "4" [] d = 5 -> "5" [] d = 6 -> "6" [] d = 7 -> "7"
    [] d = 8 -> "8" [] d = 9 -> "9"

RECURSIVE NatText(_)
NatText(n) ==
  IF n < 10 THEN <<DigitText(n)>>
  ELSE NatText(n \div 10) \o <<DigitText(n % 10)>>

RECURSIVE FracText(_)
FracText(ds) ==
  IF ds = <<>> THEN <<>> ELSE <<DigitText(Head(ds))>> \o FracText(Tail(ds))

\* the decimal text of a number
NumberText(v) ==
  (IF v[1] THEN <<"-">> ELSE <<>>) \o NatText(v[2])
    \o (IF v[3] = <<>> THEN <<>> ELSE <<".">> \o FracText(v[3]))

QuoteText(chunks) == <<"\"">> \o chunks \o <<"\"">>

\* the three results of a serialization: JSON text, undefined, or a throw
StrText(s) == [r |-> "text", s |-> s]

StrUndefined == [r |-> "undefined", s |-> <<>>]

StrThrows == [r |-> "throws", s |-> <<>>]

\* the TypeError JSON.stringify throws on a cyclic structure
CircularError == JSError("TypeError", <<"Converting circular structure to JSON">>)

RECURSIVE JSONStringify(_)
RECURSIVE SerializeElements(_)
RECURSIVE SerializeMembers(_)
\* array elements: undefined and functions are written as null
SerializeElements(es) ==
  IF es = <<>> THEN StrText(<<>>)
  ELSE LET h == JSONStringify(Head(es))
           hs == IF h.r = "undefined" THEN StrText(<<"null">>) ELSE h
           rest == SerializeElements(Tail(es))
       IN IF hs.r = "throws" THEN StrThrows
          ELSE IF rest.r = "throws" THEN StrThrows
          ELSE StrText(hs.s \o (IF Tail(es) = <<>> THEN <<>> ELSE <<",">>) \o rest.s)

\* object members: a property whose value is undefined or a function is left out
SerializeMembers(fs) ==
  IF fs = <<>> THEN StrText(<<>>)
  ELSE LET h == JSONStringify(Head(fs)[2])
           rest == SerializeMembers(Tail(fs))
       IN IF h.r = "throws" THEN StrThrows
          ELSE IF rest.r = "throws" THEN StrThrows
          ELSE IF h.r = "undefined" THEN rest
          ELSE StrText(QuoteText(<<Head(fs)[1]>>) \o <<":">> \o h.s
                         \o (IF rest.s = <<>> THEN <<>> ELSE <<",">>) \o rest.s)

JSONStringify(x) ==
  CASE x.t \in {"undefined", "function"} -> StrUndefined
    [] x.t = "null" -> StrText(<<"null">>)
    [] x.t = "boolean" -> StrText(IF x.v THEN <<"true">> ELSE <<"false">>)
    [] x.t = "number" -> StrText(NumberText(x.v))
    [] x.t = "string" -> StrText(QuoteText(x.v))
    [] x.t = "array" ->
         LET e == SerializeElements(x.v)
         IN IF e.r = "throws" THEN StrThrows ELSE StrText(<<"[">> \o e.s \o <<"]">>)
    [] x.t = "object" ->
         LET m == SerializeMembers(x.v)
         IN IF m.r = "throws" THEN StrThrows ELSE StrText(<<"{">> \o m.s \o <<"}">>)
    [] x.t = "error" -> StrText(<<"{", "}">>)
    [] x.t = "backref" -> StrThrows

\* the value of the expression JSON.stringify(x) when it does not throw
StringifyValue(x) ==
  IF JSONStringify(x).r = "text" THEN JSStr(JSONStringify(x).s) ELSE JSUndefined

(***************************************************************************)
(* JSON.parse: a recursive-descent parser over the tokens of the text.     *)
(* A parse step returns [ok, val, next]: whether a value was read, the     *)
(* value, and the position after it.                                       *)
(***************************************************************************)
ParseFail == [ok |-> FALSE, val |-> JSUndefined, next |-> 0]

ParseOk(val, next) == [ok |-> TRUE, val |-> val, next |-> next]

IsDigitText(c) == c \in {"0", "1", "2", "3", "4", "5", "6", "7", "8", "9"}

DigitValue(c) ==
  CASE c = "0" -> 0 [] c = "1" -> 1 [] c = "2" -> 2 [] c = "3" -> 3
    [] c = "4" -> 4 [] c = "5" -> 5 [] c = "6" -> 6 [] c = "7" -> 7
    [] c = "8" -> 8 [] c = "9" -> 9

IsWhitespace(c) == c \in {" ", "\n", "\t", "\r"}

RECURSIVE SkipWhitespace(_, _)
SkipWhitespace(s, i) ==
  IF i <= Len(s) /\ IsWhitespace(s[i]) THEN SkipWhitespace(s, i + 1) ELSE i

\* the position of the closing quote of a string opened before position i
RECURSIVE ClosingQuote(_, _)
ClosingQuote(s, i) ==
  IF i > Len(s) THEN 0
  ELSE IF s[i] = "\"" THEN i
  ELSE ClosingQuote(s, i + 1)

\* s[i] is an opening quote
ParseString(s, i) ==
  LET j == ClosingQuote(s, i + 1)
  IN IF j = 0 THEN ParseFail ELSE ParseOk(JSStr(SubSeq(s, i + 1, j - 1)), j + 1)

\* the end of the run of digits that starts at position i
RECURSIVE DigitsEnd(_, _)
DigitsEnd(s, i) ==
  IF i <= Len(s) /\ IsDigitText(s[i]) THEN DigitsEnd(s, i + 1) ELSE i

RECURSIVE DigitsValue(_, _, _)
DigitsValue(s, i, j) ==
  IF j < i THEN 0 ELSE 10 * DigitsValue(s, i, j - 1) + DigitValue(s[j])

\* the digits of a fraction, without its trailing zeros
RECURSIVE FracDigits(_, _, _)
FracDigits(s, i, j) ==
  IF j < i THEN <<>>
  ELSE IF s[j] = "0" THEN FracDigits(s, i, j - 1)
  ELSE [k \in 1..(j - i + 1) |-> DigitValue(s[i + k - 1])]

\* a number: [-] digits [. digits], no leading zero before another digit
ParseNumber(s, i) ==
  LET neg == s[i] = "-"
      a == IF neg THEN i + 1 ELSE i
      b == DigitsEnd(s, a)
      hasFrac == b <= Len(s) /\ s[b] = "."
      c == IF hasFrac THEN DigitsEnd(s, b + 1) ELSE b
  IN IF b = a THEN ParseFail
     ELSE IF s[a] = "0" /\ b > a + 1 THEN ParseFail
     ELSE IF hasFrac /\ c = b + 1 THEN ParseFail
     ELSE ParseOk(JSNum(neg, DigitsValue(s, a, b - 1),
                        IF hasFrac THEN FracDigits(s, b + 1, c - 1) ELSE <<>>), c)

RECURSIVE StrConcat(_)
StrConcat(chunks) ==
  IF chunks = <<>> THEN "" ELSE Head(chunks) \o StrConcat(Tail(chunks))

\* defining a property: a repeated key keeps its place and takes the new value
SetField(fields, key, val) ==
  IF \E i \in 1..Len(fields) : fields[i][1] = key
  THEN [i \in 1..Len(fields) |->
          IF fields[i][1] = key THEN <<key, val>> ELSE fields[i]]
  ELSE Append(fields, <<key, val>>)

RECURSIVE ParseValue(_, _)
RECURSIVE ParseElements(_, _, _)
RECURSIVE ParseMembers(_, _, _)
\* the elements of an array, position i being that of the next element
ParseElements(s, i, acc) ==
  LET e == ParseValue(s, i)
      j == SkipWhitespace(s, e.next)
  IN IF ~e.ok \/ j > Len(s) THEN ParseFail
     ELSE IF s[j] = "]" THEN ParseOk(JSArr(Append(acc, e.val)), j + 1)
     ELSE IF s[j] = "," THEN ParseElements(s, j + 1, Append(acc, e.val))
     ELSE ParseFail

\* the members of an object, position i being that of the next key
ParseMembers(s, i, acc) ==
  LET a == SkipWhitespace(s, i)
      k == IF a <= Len(s) /\ s[a] = "\"" THEN ParseString(s, a) ELSE ParseFail
      b == SkipWhitespace(s, k.next)
      e == IF k.ok /\ b <= Len(s) /\ s[b] = ":" THEN ParseValue(s, b + 1) ELSE ParseFail
      j == SkipWhitespace(s, e.next)
      fields == SetField(acc, StrConcat(k.val.v), e.val)
  IN IF ~e.ok \/ j > Len(s) THEN ParseFail
     ELSE IF s[j] = "}" THEN ParseOk(JSObj(fields), j + 1)
     ELSE IF s[j] = "," THEN ParseMembers(s, j + 1, fields)
     ELSE ParseFail

ParseValue(s, i0) ==
  LET i == SkipWhitespace(s, i0)
  IN IF i > Len(s) THEN ParseFail
     ELSE CASE s[i] = "null" -> ParseOk(JSNull, i + 1)
            [] s[i] = "true" -> ParseOk(JSBool(TRUE), i + 1)
            [] s[i] = "false" -> ParseOk(JSBool(FALSE), i + 1)
            [] s[i] = "\"" -> ParseString(s, i)
            [] s[i] = "-" \/ IsDigitText(s[i]) -> ParseNumber(s, i)
            [] s[i] = "[" ->
                 LET j == SkipWhitespace(s, i + 1)
                 IN IF j <= Len(s) /\ s[j] = "]" THEN ParseOk(JSArr(<<>>), j + 1)
                    ELSE ParseElements(s, i + 1, <<>>)
            [] s[i] = "{" ->
                 LET j == SkipWhitespace(s, i + 1)
                 IN IF j <= Len(s) /\ s[j] = "}" THEN ParseOk(JSObj(<<>>), j + 1)
                    ELSE ParseMembers(s, i + 1, <<>>)
            [] OTHER -> ParseFail

\* JSON.parse(data): [ok, val]; not ok is a thrown SyntaxError.  A value
\* that is not a string is first converted to text that is no JSON
\* ("undefined", "[object Object]"), except null, numbers and booleans.
JSONParse(data) ==
  LET s == IF data.t = "string" THEN data.v
           ELSE IF data.t \in {"null", "boolean", "number"} THEN JSONStringify(data).s
           ELSE <<"undefined">>
      r == ParseValue(s, 1)
  IN IF r.ok /\ SkipWhitespace(s, r.next) = Len(s) + 1
     THEN [ok |-> TRUE, val |-> r.val]
     ELSE [ok |-> FALSE, val |-> JSUndefined]

\* the SyntaxError JSON.parse throws
SyntaxError == JSError("SyntaxError", <<"Unexpected token in JSON">>)

(***************************************************************************)
(* The client                                                              *)
(***************************************************************************)
VARIABLES
  newArgs,  \* the arguments new rpcClient(...) was called with
  client,   \* the rpcClient instance: a JavaScript object
  banList,  \* a BanList instance
  calls,    \* the calls made on the client, with the state of their promise
  sends,    \* the invocations of _send, with the arguments they received
  posts     \* the requests handed to request.post, with the transport's reply

vars == <<newArgs, client, banList, calls, sends, posts>>

\* what the operations of the client do not write
fixed == <<newArgs, client, banList>>

\* bound on the number of calls made on the client
MaxCalls == 1

\* a parameter with a default value takes it when the argument is undefined
DefaultTo(arg, default) == IF arg = JSUndefined THEN default ELSE arg

\* the text a value contributes to a template literal
TemplateText(x) ==
  CASE x.t = "string" -> x.v
    [] x.t = "undefined" -> <<"undefined">>
    [] x.t = "null" -> <<"null">>
    [] OTHER -> JSONStringify(x).s

\* the constructor of the earlier version, (nodeAddress, walletAddress)
ConstructorKeepsWallet(nodeAddress, deserializeJSON) ==
  JSObj(<< <<"nodeAddress", nodeAddress>>, <<"walletAddress", deserializeJSON>> >>)

\* constructor (nodeAddress, deserializeJSON = true)
constructor(nodeAddress, deserializeJSON) ==
  JSObj(<< <<"nodeAddress", nodeAddress>>,
           <<"deserializeJSON", DefaultTo(deserializeJSON, JSBool(TRUE))>> >>)

\* a promise; the state "thrown" stands for a call that returned no promise
\* because it threw, value being the exception.  settlements counts the
\* invocations of resolve and reject made on the promise.
NewCall(op, args, state, value) ==
  [op |-> op, args |-> args, state |-> state, value |-> value,
   settlements |-> IF state = "rejected" THEN 1 ELSE 0]

\* resolve(value) and reject(value): only the first settlement takes effect
Settle(call, state, value) ==
  IF call.state = "pending"
  THEN [call EXCEPT !.state = state, !.value = value, !.settlements = @ + 1]
  ELSE [call EXCEPT !.settlements = @ + 1]

\* the result of a builder: a request descriptor, or a thrown error
Built(req) == [threw |-> FALSE, err |-> JSUndefined, req |-> req]

BuildThrew(err) ==
  [threw |-> TRUE, err |-> err,
   req |-> [url |-> <<>>, hasBody |-> FALSE, body |-> JSUndefined]]

\* the object literal {jsonrpc: "2.0", id: "0", method, params}
Envelope(method, params) ==
  JSObj(<< <<"jsonrpc", JSStr(<<"2.0">>)>>, <<"id", JSStr(<<"0">>)>>,
           <<"method", method>>, <<"params", params>> >>)

\* _buildJSONRPCReq with the id written as the number 0
BuildJSONRPCReqNumericId(this, method, params) ==
  LET url == TemplateText(GetProp(this, "nodeAddress")) \o <<"/json_rpc">>
      envelope == JSObj(<< <<"jsonrpc", JSStr(<<"2.0">>)>>, <<"id", JSInt(0)>>,
                           <<"method", method>>, <<"params", params>> >>)
  IN IF JSONStringify(envelope).r = "throws" THEN BuildThrew(NewError(CircularError))
     ELSE Built([url |-> url, hasBody |-> TRUE, body |-> StringifyValue(envelope)])

\* _buildJSONRPCReq writing params as null when it is undefined
BuildJSONRPCReqNullParams(this, method, params) ==
  LET url == TemplateText(GetProp(this, "nodeAddress")) \o <<"/json_rpc">>
      envelope == Envelope(method, IF params = JSUndefined THEN JSNull ELSE params)
  IN IF JSONStringify(envelope).r = "throws" THEN BuildThrew(NewError(CircularError))
     ELSE Built([url |-> url, hasBody |-> TRUE, body |-> StringifyValue(envelope)])

\* _buildJSONRPCReq numbering the requests: the id is the count of the
\* requests posted so far
BuildJSONRPCReqCountingId(this, method, params) ==
  LET url == TemplateText(GetProp(this, "nodeAddress")) \o <<"/json_rpc">>
      envelope == JSObj(<< <<"jsonrpc", JSStr(<<"2.0">>)>>,
                           <<"id", JSStr(NatText(Len(posts)))>>,
                           <<"method", method>>, <<"params", params>> >>)
  IN IF JSONStringify(envelope).r = "throws" THEN BuildThrew(NewError(CircularError))
     ELSE Built([url |-> url, hasBody |-> TRUE, body |-> StringifyValue(envelope)])

_buildJSONRPCReq(this, method, params) ==
  LET url == TemplateText(GetProp(this, "nodeAddress")) \o <<"/json_rpc">>
      payload == JSONStringify(Envelope(method, params))
  IN IF payload.r = "throws" THEN BuildThrew(NewError(CircularError))
     ELSE Built([url |-> url, hasBody |-> TRUE,
                 body |-> StringifyValue(Envelope(method, params))])

\* _buildOtherRPCReq without the test for undefined params: the body is
\* always set from JSON.stringify(params)
BuildOtherRPCReqAlwaysBody(this, method, params) ==
  LET url == TemplateText(GetProp(this, "nodeAddress")) \o <<"/">> \o TemplateText(method)
  IN IF JSONStringify(params).r = "throws" THEN BuildThrew(NewError(CircularError))
     ELSE Built([url |-> url, hasBody |-> TRUE, body |-> StringifyValue(params)])

_buildOtherRPCReq(this, method, params) ==
  LET url == TemplateText(GetProp(this, "nodeAddress")) \o <<"/">> \o TemplateText(method)
  IN IF TypeOf(params) = "undefined"
     THEN Built([url |-> url, hasBody |-> FALSE, body |-> JSUndefined])
     ELSE IF JSONStringify(params).r = "throws" THEN BuildThrew(NewError(CircularError))
     ELSE Built([url |-> url, hasBody |-> TRUE, body |-> StringifyValue(params)])

\* the try block of _send: the builder chosen by isJSONRPC
BuildReq(this, method, params, isJSONRPC) ==
  IF Truthy(isJSONRPC) THEN _buildJSONRPCReq(this, method, params)
  ELSE _buildOtherRPCReq(this, method, params)

\* a request handed to request.post, not yet answered
NewPost(call, req) ==
  [call |-> call, req |-> req, replied |-> FALSE, err |-> JSUndefined, res |-> JSUndefined,
   data |-> JSUndefined]

\* _send with reject(err) not followed by return: after a failed build the
\* empty descriptor is posted all the same
SendPostsAfterReject(op, args, method, params0, isJSONRPC0) ==
  LET params == DefaultTo(params0, JSUndefined)
      isJSONRPC == DefaultTo(isJSONRPC0, JSBool(TRUE))
      built == BuildReq(client, method, params, isJSONRPC)
      id == Len(calls) + 1
  IN /\ sends' = Append(sends, [call |-> id, method |-> method, params |-> params,
                                isJSONRPC |-> isJSONRPC])
     /\ calls' = Append(calls, IF built.threw
                               THEN NewCall(op, args, "rejected", built.err)
                               ELSE NewCall(op, args, "pending", JSUndefined))
     /\ posts' = Append(posts, NewPost(id, built.req))
     /\ UNCHANGED fixed

\* _send keeping the url it built in this.nodeAddress
SendStoresUrl(op, args, method, params0, isJSONRPC0) ==
  LET params == DefaultTo(params0, JSUndefined)
      isJSONRPC == DefaultTo(isJSONRPC0, JSBool(TRUE))
      built == BuildReq(client, method, params, isJSONRPC)
      id == Len(calls) + 1
  IN /\ sends' = Append(sends, [call |-> id, method |-> method, params |-> params,
                                isJSONRPC |-> isJSONRPC])
     /\ IF built.threw
        THEN /\ calls' = Append(calls, NewCall(op, args, "rejected", built.err))
             /\ posts' = posts
             /\ UNCHANGED fixed
        ELSE /\ calls' = Append(calls, NewCall(op, args, "pending", JSUndefined))
             /\ posts' = Append(posts, NewPost(id, built.req))
             /\ client' = JSObj(<< <<"nodeAddress", JSStr(built.req.url)>>,
                                   <<"deserializeJSON", GetProp(client, "deserializeJSON")>> >>)
             /\ UNCHANGED <<newArgs, banList>>

\* _send resolving the promise as soon as the request is handed to the
\* transport, without waiting for the callback
SendResolvesEarly(op, args, method, params0, isJSONRPC0) ==
  LET params == DefaultTo(params0, JSUndefined)
      isJSONRPC == DefaultTo(isJSONRPC0, JSBool(TRUE))
      built == BuildReq(client, method, params, isJSONRPC)
      id == Len(calls) + 1
  IN /\ sends' = Append(sends, [call |-> id, method |-> method, params |-> params,
                                isJSONRPC |-> isJSONRPC])
     /\ IF built.threw
        THEN /\ calls' = Append(calls, NewCall(op, args, "rejected", built.err))
             /\ posts' = posts
        ELSE /\ calls' = Append(calls, Settle(NewCall(op, args, "pending", JSUndefined),
                                              "resolved", JSUndefined))
             /\ posts' = Append(posts, NewPost(id, built.req))
     /\ UNCHANGED fixed

\* _send (method, params = undefined, isJSONRPC = true), reached from the
\* public operation op called with args: the promise is created, the
\* request is built and, unless the build threw, posted
_send(op, args, method, params0, isJSONRPC0) ==
  LET params == DefaultTo(params0, JSUndefined)
      isJSONRPC == DefaultTo(isJSONRPC0, JSBool(TRUE))
      built == BuildReq(client, method, params, isJSONRPC)
      id == Len(calls) + 1
  IN /\ sends' = Append(sends, [call |-> id, method |-> method, params |-> params,
                                isJSONRPC |-> isJSONRPC])
     /\ IF built.threw
        THEN /\ calls' = Append(calls, NewCall(op, args, "rejected", built.err))
             /\ posts' = posts
        ELSE /\ calls' = Append(calls, NewCall(op, args, "pending", JSUndefined))
             /\ posts' = Append(posts, NewPost(id, built.req))
     /\ UNCHANGED fixed

\* the object the callback of request.post finds in this: the callback is a
\* function expression, so this is not the client but the object the
\* transport calls it on, the request made from the descriptor
CallbackThis(this, req) ==
  JSObj(<< <<"url", JSStr(req.url)>>, <<"body", req.body>> >>)

\* the callback with the test of the decode flag inverted: it parses when
\* the flag it reads is not set
CallbackInvertedFlag(this, req, err, data) ==
  IF Truthy(err) THEN [state |-> "rejected", value |-> err]
  ELSE IF Truthy(GetProp(CallbackThis(this, req), "deserializeJSON"))
  THEN [state |-> "resolved", value |-> data]
  ELSE IF JSONParse(data).ok
  THEN [state |-> "resolved", value |-> JSONParse(data).val]
  ELSE [state |-> "rejected", value |-> SyntaxError]

\* the callback without the test of err
CallbackIgnoresErr(this, req, err, data) ==
  IF ~Truthy(GetProp(CallbackThis(this, req), "deserializeJSON"))
  THEN [state |-> "resolved", value |-> data]
  ELSE IF JSONParse(data).ok
  THEN [state |-> "resolved", value |-> JSONParse(data).val]
  ELSE [state |-> "rejected", value |-> SyntaxError]

\* the callback as an arrow function: this is the client, and the decode
\* flag read is the one given at construction
CallbackReadsClientFlag(this, req, err, data) ==
  IF Truthy(err) THEN [state |-> "rejected", value |-> err]
  ELSE IF ~Truthy(GetProp(this, "deserializeJSON"))
  THEN [state |-> "resolved", value |-> data]
  ELSE IF JSONParse(data).ok
  THEN [state |-> "resolved", value |-> JSONParse(data).val]
  ELSE [state |-> "rejected", value |-> SyntaxError]

\* the callback function (err, req, data) of request.post: the settlement
\* it makes, [state, value]
Callback(this, req, err, data) ==
  IF Truthy(err) THEN [state |-> "rejected", value |-> err]
  ELSE IF ~Truthy(GetProp(CallbackThis(this, req), "deserializeJSON"))
  THEN [state |-> "resolved", value |-> data]
  ELSE IF JSONParse(data).ok
  THEN [state |-> "resolved", value |-> JSONParse(data).val]
  ELSE [state |-> "rejected", value |-> SyntaxError]

\* the callback with if (err) { reject(err); } not followed by return: after
\* the rejection it goes on to settle from the body
RespondErrFallsThrough(k, err, res, data) ==
  /\ k \in 1..Len(posts)
  /\ ~posts[k].replied
  /\ LET out == Callback(client, posts[k].req, err, data)
         rest == Callback(client, posts[k].req, JSNull, data)
         id == posts[k].call
     IN calls' = [calls EXCEPT ![id] =
                    IF Truthy(err)
                    THEN Settle(Settle(calls[id], out.state, out.value),
                                rest.state, rest.value)
                    ELSE Settle(calls[id], out.state, out.value)]
  /\ posts' = [posts EXCEPT ![k] = [@ EXCEPT !.replied = TRUE, !.err = err, !.res = res, !.data = data]]
  /\ UNCHANGED <<fixed, sends>>

\* the callback posting the request again when the transport fails
RespondRetriesOnError(k, err, res, data) ==
  /\ k \in 1..Len(posts)
  /\ ~posts[k].replied
  /\ LET out == Callback(client, posts[k].req, err, data)
         id == posts[k].call
         answered == [posts EXCEPT ![k] =
                        [@ EXCEPT !.replied = TRUE, !.err = err, !.res = res, !.data = data]]
     IN IF Truthy(err) /\ Cardinality({j \in 1..Len(posts) : posts[j].call = id}) = 1
        THEN /\ calls' = calls
             /\ posts' = Append(answered, NewPost(id, posts[k].req))
        ELSE /\ calls' = [calls EXCEPT ![id] = Settle(calls[id], out.state, out.value)]
             /\ posts' = answered
  /\ UNCHANGED <<fixed, sends>>

\* resolve and reject kept in one place shared by all calls: the callback
\* settles the promise of the call made last
RespondSettlesLastCall(k, err, res, data) ==
  /\ k \in 1..Len(posts)
  /\ ~posts[k].replied
  /\ LET out == Callback(client, posts[k].req, err, data)
         id == Len(calls)
     IN calls' = [calls EXCEPT ![id] = Settle(calls[id], out.state, out.value)]
  /\ posts' = [posts EXCEPT ![k] = [@ EXCEPT !.replied = TRUE, !.err = err, !.res = res, !.data = data]]
  /\ UNCHANGED <<fixed, sends>>

\* the callback with if (err) { return; }: a transport error settles nothing
RespondSilentOnError(k, err, res, data) ==
  /\ k \in 1..Len(posts)
  /\ ~posts[k].replied
  /\ LET out == Callback(client, posts[k].req, err, data)
         id == posts[k].call
     IN calls' = IF Truthy(err) THEN calls
                 ELSE [calls EXCEPT ![id] = Settle(calls[id], out.state, out.value)]
  /\ posts' = [posts EXCEPT ![k] = [@ EXCEPT !.replied = TRUE, !.err = err, !.res = res, !.data = data]]
  /\ UNCHANGED <<fixed, sends>>

\* the callback rejecting a response whose status code is 400 or more
RespondRejectsHttpError(k, err, res, data) ==
  /\ k \in 1..Len(posts)
  /\ ~posts[k].replied
  /\ LET out == Callback(client, posts[k].req, err, data)
         id == posts[k].call
     IN calls' = [calls EXCEPT ![id] =
                    IF ~Truthy(err) /\ GetProp(res, "statusCode").v[2] >= 400
                    THEN Settle(calls[id], "rejected", JSError("Error", <<"HTTP error">>))
                    ELSE Settle(calls[id], out.state, out.value)]
  /\ posts' = [posts EXCEPT ![k] = [@ EXCEPT !.replied = TRUE, !.err = err, !.res = res, !.data = data]]
  /\ UNCHANGED <<fixed, sends>>

\* the transport calls the callback of post k, once, with err, the response
\* and data; the callback names the response req and does not read it
Respond(k, err, res, data) ==
  /\ k \in 1..Len(posts)
  /\ ~posts[k].replied
  /\ LET out == Callback(client, posts[k].req, err, data)
         id == posts[k].call
     IN calls' = [calls EXCEPT ![id] = Settle(calls[id], out.state, out.value)]
  /\ posts' = [posts EXCEPT ![k] = [@ EXCEPT !.replied = TRUE, !.err = err, !.res = res, !.data = data]]
  /\ UNCHANGED <<fixed, sends>>

\* the message of the error getBlockTemplate rejects with
errMess ==
  <<"The argument should be an object with following fields: ",
    "wallet_address string - required ", "reserve_size integer = required">>

\* the condition of getBlockTemplate's if; reading a property of null throws
GetBlockTemplateThrows(args) == TypeOf(args) = "object" /\ ~CanGetProp(args)

\* the condition without the Number.isInteger test
InvalidWithoutIntegerTest(args) ==
  \/ TypeOf(args) # "object"
  \/ TypeOf(GetProp(args, "wallet_address")) # "string"
  \/ ~Truthy(GetProp(args, "wallet_address"))
  \/ GetProp(args, "reserve_size") = JSUndefined
  \/ TypeOf(GetProp(args, "reserve_size")) # "number"

GetBlockTemplateInvalid(args) ==
  \/ TypeOf(args) # "object"
  \/ TypeOf(GetProp(args, "wallet_address")) # "string"
  \/ ~Truthy(GetProp(args, "wallet_address"))
  \/ GetProp(args, "reserve_size") = JSUndefined
  \/ TypeOf(GetProp(args, "reserve_size")) # "number"
  \/ ~NumberIsInteger(GetProp(args, "reserve_size"))

\* getBlockTemplate forwarding the wallet address instead of args
GetBlockTemplateSendsWallet(args) ==
  IF GetBlockTemplateThrows(args)
  THEN /\ calls' = Append(calls, NewCall("getBlockTemplate", <<args>>, "thrown",
                            JSError("TypeError", <<"Cannot read property wallet_address of null">>)))
       /\ UNCHANGED <<fixed, sends, posts>>
  ELSE IF GetBlockTemplateInvalid(args)
  THEN /\ calls' = Append(calls, NewCall("getBlockTemplate", <<args>>, "rejected",
                            JSError("Error", errMess)))
       /\ UNCHANGED <<fixed, sends, posts>>
  ELSE _send("getBlockTemplate", <<args>>, JSStr(<<"getblocktemplate">>),
             GetProp(args, "wallet_address"), JSUndefined)

getBlockTemplate(args) ==
  IF GetBlockTemplateThrows(args)
  THEN /\ calls' = Append(calls, NewCall("getBlockTemplate", <<args>>, "thrown",
                            JSError("TypeError", <<"Cannot read property wallet_address of null">>)))
       /\ UNCHANGED <<fixed, sends, posts>>
  ELSE IF GetBlockTemplateInvalid(args)
  THEN /\ calls' = Append(calls, NewCall("getBlockTemplate", <<args>>, "rejected",
                            JSError("Error", errMess)))
       /\ UNCHANGED <<fixed, sends, posts>>
  ELSE _send("getBlockTemplate", <<args>>, JSStr(<<"getblocktemplate">>), args, JSUndefined)

(***************************************************************************)
(* The other public operations                                             *)
(***************************************************************************)
\* an exception thrown to the caller of op: no promise is returned
Throw(op, args, err) ==
  /\ calls' = Append(calls, NewCall(op, args, "thrown", err))
  /\ UNCHANGED <<fixed, sends, posts>>

\* the identifiers bound in the scope of the class: the two require()d
\* modules and the class itself
ModuleScope == {"net", "request", "rpcClient"}

\* reading an identifier that is bound nowhere throws a ReferenceError
ReferenceError(name) == JSError("ReferenceError", <<name, " is not defined">>)

\* destructuring a parameter {a, b}: undefined and null cannot be destructured
DestructureError ==
  JSError("TypeError", <<"Cannot destructure property of undefined or null">>)

getBlockCount ==
  _send("getBlockCount", <<>>, JSStr(<<"getblockcount">>), JSUndefined, JSBool(TRUE))

\* onGetBlockHash passing the height itself, not an array
OnGetBlockHashBare(height) ==
  _send("onGetBlockHash", <<height>>, JSStr(<<"on_getblockhash">>), height, JSUndefined)

onGetBlockHash(height) ==
  _send("onGetBlockHash", <<height>>, JSStr(<<"on_getblockhash">>),
        JSArr(<<height>>), JSUndefined)

\* the parameter is blockBlob, the identifier read is blockblob
submitBlock(blockBlob) ==
  IF "blockblob" \notin ModuleScope
  THEN Throw("submitBlock", <<blockBlob>>, ReferenceError("blockblob"))
  ELSE _send("submitBlock", <<blockBlob>>, JSStr(<<"submitblock">>), JSUndefined,
             JSUndefined)

getLastBlockHeader ==
  _send("getLastBlockHeader", <<>>, JSStr(<<"getlastblockheader">>), JSUndefined,
        JSUndefined)

getBlockHeaderByHash(hash) ==
  _send("getBlockHeaderByHash", <<hash>>, JSStr(<<"getblockheaderbyhash">>), hash,
        JSUndefined)

getBlockHeaderByHeight(height) ==
  _send("getBlockHeaderByHeight", <<height>>, JSStr(<<"getblockheaderbyheight">>),
        JSUndefined, JSUndefined)

getBlock(height, hash) ==
  _send("getBlock", <<height, hash>>, JSStr(<<"getblock">>),
        JSObj(<< <<"height", height>> >>), JSUndefined)

getConnections ==
  _send("getConnections", <<>>, JSStr(<<"get_connections">>), JSUndefined, JSUndefined)

getInfo == _send("getInfo", <<>>, JSStr(<<"get_info">>), JSUndefined, JSUndefined)

hardForkInfo ==
  _send("hardForkInfo", <<>>, JSStr(<<"hard_fork_info">>), JSUndefined, JSUndefined)

\* typeof nodes !== BanList reads the identifier BanList; typeof gives a
\* string, which is never identical to a class, so the test would hold for
\* every nodes and the throw statement reads the identifier Err
setBans(nodes) ==
  IF "BanList" \notin ModuleScope
  THEN Throw("setBans", <<nodes>>, ReferenceError("BanList"))
  ELSE IF "Err" \notin ModuleScope
  THEN Throw("setBans", <<nodes>>, ReferenceError("Err"))
  ELSE Throw("setBans", <<nodes>>,
             JSError("Err", <<"Monero Client: setBans() expect a instance of BanList as argument">>))

getBans == _send("getBans", <<>>, JSStr(<<"getbans">>), JSUndefined, JSUndefined)

\* getHeight without the third argument of _send
GetHeightStructured ==
  _send("getHeight", <<>>, JSStr(<<"getheight">>), JSUndefined, JSUndefined)

getHeight ==
  _send("getHeight", <<>>, JSStr(<<"getheight">>), JSUndefined, JSBool(FALSE))

\* getTransactions always asking for the decoded form
GetTransactionsForcesDecode(arg) ==
  IF ~CanGetProp(arg) THEN Throw("getTransactions", <<arg>>, DestructureError)
  ELSE _send("getTransactions", <<arg>>, JSStr(<<"gettransactions">>),
             JSObj(<< <<"txs_hashes", GetProp(arg, "txs_hashes")>>,
                      <<"decode_as_json", JSBool(TRUE)>> >>),
             JSBool(FALSE))

\* getTransactions ({txs_hashes, decode_as_json = true})
getTransactions(arg) ==
  IF ~CanGetProp(arg) THEN Throw("getTransactions", <<arg>>, DestructureError)
  ELSE _send("getTransactions", <<arg>>, JSStr(<<"gettransactions">>),
             JSObj(<< <<"txs_hashes", GetProp(arg, "txs_hashes")>>,
                      <<"decode_as_json",
                        DefaultTo(GetProp(arg, "decode_as_json"), JSBool(TRUE))>> >>),
             JSBool(FALSE))

\* isKeyImageSpent ({key_images})
isKeyImageSpent(arg) ==
  IF ~CanGetProp(arg) THEN Throw("isKeyImageSpent", <<arg>>, DestructureError)
  ELSE _send("isKeyImageSpent", <<arg>>, JSStr(<<"is_key_image_spent">>),
             JSObj(<< <<"key_images", GetProp(arg, "key_images")>> >>), JSBool(FALSE))

\* sendRawTransaction ({tx_as_hex})
sendRawTransaction(arg) ==
  IF ~CanGetProp(arg) THEN Throw("sendRawTransaction", <<arg>>, DestructureError)
  ELSE _send("sendRawTransaction", <<arg>>, JSStr(<<"sendrawtransaction">>),
             JSObj(<< <<"tx_as_hex", GetProp(arg, "tx_as_hex")>> >>), JSBool(FALSE))

getTransactionPool ==
  _send("getTransactionPool", <<>>, JSStr(<<"get_transaction_pool">>), JSUndefined,
        JSBool(FALSE))

stopDaemon ==
  _send("stopDaemon", <<>>, JSStr(<<"stop_daemon">>), JSUndefined, JSBool(FALSE))

(***************************************************************************)
(* The BanList class                                                       *)
(***************************************************************************)
\* constructor(): this.bans = []
NewBanList == JSObj(<< <<"bans", JSArr(<<>>)>> >>)

\* the entry {ip: ip, ban: ban, seconds: seconds}
BanEntry(ip, ban, seconds) ==
  JSObj(<< <<"ip", ip>>, <<"ban", ban>>, <<"seconds", seconds>> >>)

\* this.bans.push(entry)
Push(array, entry) == JSArr(Append(array.v, entry))

\* add keeping one entry per ip: a second entry of an ip replaces the first
AddUniqueIp(this, ip, ban, seconds) ==
  LET bans == GetProp(this, "bans")
      entry == BanEntry(ip, ban, seconds)
      known == {j \in 1..Len(bans.v) : GetProp(bans.v[j], "ip") = ip}
  IN IF known = {}
     THEN JSObj(<< <<"bans", Push(bans, entry)>> >>)
     ELSE JSObj(<< <<"bans", JSArr([j \in 1..Len(bans.v) |->
                                      IF j \in known THEN entry ELSE bans.v[j]])>> >>)

\* add(ip, ban, seconds): the list after the call
add(this, ip, ban, seconds) ==
  JSObj(<< <<"bans", Push(GetProp(this, "bans"), BanEntry(ip, ban, seconds))>> >>)

(***************************************************************************)
(* Inputs                                                                  *)
(***************************************************************************)
NodeAddresses ==
  {JSStr(<<"http://node.example:18089">>), JSStr(<<"http://node.moneroworld.com:18089">>)}

WALLET_ADDRESS == JSStr(<<"46sKRpY9ULrhA7QVWxZ1VPWmTeU56CBfUNeCey5xDRsBMXnxP5fy">>)

\* the second argument of the constructor: left out, false, or a string
DeserializeArgs == {JSUndefined, JSBool(FALSE), WALLET_ADDRESS}

Methods == {JSStr(<<"getblockcount">>), JSStr(<<"getheight">>)}

\* an object that holds a reference to itself
CyclicParams == JSObj(<< <<"height", JSInt(1)>>, <<"self", JSBackRef>> >>)

ParamValues ==
  {JSUndefined, JSNull, JSArr(<<JSInt(1000)>>),
   JSObj(<< <<"height", JSInt(912345)>>, <<"hash", JSUndefined>> >>), CyclicParams}

\* the third argument of _send: left out, true or false
ConventionArgs == {JSUndefined, JSBool(TRUE), JSBool(FALSE)}

TemplateArgs ==
  {JSUndefined, JSNull, JSStr(<<>>), JSInt(8), JSFunction,
   JSObj(<< <<"wallet_address", WALLET_ADDRESS>>, <<"reserve_size", JSInt(8)>> >>),
   JSObj(<< <<"wallet_address", WALLET_ADDRESS>>, <<"reserve_size", JSInt(8)>>,
            <<"self", JSBackRef>> >>),
   JSObj(<< <<"reserve_size", JSInt(8)>> >>),
   JSObj(<< <<"wallet_address", JSStr(<<>>)>>, <<"reserve_size", JSInt(8)>> >>),
   JSObj(<< <<"wallet_address", JSInt(12345678)>>, <<"reserve_size", JSInt(8)>> >>),
   JSObj(<< <<"wallet_address", WALLET_ADDRESS>> >>),
   JSObj(<< <<"wallet_address", WALLET_ADDRESS>>,
            <<"reserve_size", JSStr(<<"Im the wrong type">>)>> >>),
   JSObj(<< <<"wallet_address", WALLET_ADDRESS>>,
            <<"reserve_size", JSNum(FALSE, 8, <<5>>)>> >>)}

\* block heights: a height, or no argument
Heights == {JSInt(1000), JSUndefined}

BlockBlobs == {JSStr(<<"78sffssfsf28742sf">>), JSUndefined}

HashArgs ==
  {JSObj(<< <<"hash", JSStr(<<"e22cf75f39ae720e8b71b3d120a5ac03f0db50bba6379e2850975b4859190bc6">>)>> >>),
   JSUndefined}

HeightArgs == {JSObj(<< <<"height", JSInt(1000)>> >>)}

\* the first argument of getBlock: a height, or an object as the test passes
BlockArgs == {JSInt(1000), JSObj(<< <<"height", JSInt(1000)>> >>)}

\* a BanList instance with one entry, or no argument
BanLists ==
  {JSObj(<< <<"bans", JSArr(<< JSObj(<< <<"ip", JSInt(838969536)>>, <<"ban", JSBool(TRUE)>>,
                                        <<"seconds", JSInt(30)>> >>) >>)>> >>),
   JSUndefined}

TxHashes ==
  JSArr(<<JSStr(<<"d6e48158472848e6687173a91ae6eebfa3e1d778e65252ee99d7515d63090408">>)>>)

TransactionsArgs ==
  {JSObj(<< <<"txs_hashes", TxHashes>>, <<"decode_as_json", JSBool(TRUE)>> >>),
   JSObj(<< <<"txs_hashes", TxHashes>>, <<"decode_as_json", JSBool(FALSE)>> >>),
   JSObj(<< <<"txs_hashes", TxHashes>> >>),
   JSUndefined}

KeyImagesArgs ==
  {JSObj(<< <<"key_images",
              JSArr(<<JSStr(<<"8d1bd8181bf7d857bdb281e0153d84cd55a3fcaa57c3e570f4a49f935850b5e3">>)>>)>> >>),
   JSUndefined}

RawTransactionArgs == {JSObj(<< <<"tx_as_hex", JSStr(<<"ae634">>)>> >>), JSNull}

\* the error of a failed transport
TransportError == JSError("Error", <<"connect ECONNREFUSED">>)

\* the response text {"status": "OK","count":9933}
BlockCountBody ==
  <<"{", "\"", "status", "\"", ":", " ", "\"", "OK", "\"", ",",
    "\"", "count", "\"", ":", "9", "9", "3", "3", "}">>

\* a response text that is no JSON
HtmlBody == <<"<html>", "502 Bad Gateway", "</html>">>

\* the response object of the transport, with its HTTP status code
Response(statusCode) == JSObj(<< <<"statusCode", JSInt(statusCode)>> >>)

\* what the transport may hand to the callback: (err, response, data)
Replies ==
  {[err |-> TransportError, res |-> JSUndefined, data |-> JSUndefined],
   [err |-> TransportError, res |-> Response(502), data |-> JSStr(HtmlBody)],
   [err |-> JSNull, res |-> Response(200), data |-> JSStr(BlockCountBody)],
   [err |-> JSNull, res |-> Response(502), data |-> JSStr(HtmlBody)],
   [err |-> JSNull, res |-> Response(200), data |-> JSStr(<<>>)]}

\* replies whose status code is not the usual one for their body
HttpStatusReplies ==
  {[err |-> JSNull, res |-> Response(500), data |-> JSStr(BlockCountBody)],
   [err |-> JSNull, res |-> Response(404), data |-> JSStr(HtmlBody)],
   [err |-> JSNull, res |-> Response(200), data |-> JSStr(HtmlBody)]}

\* the arguments of BanList.add
Ips == {JSInt(838969536), JSStr(<<"12.12.12.12">>)}

BanFlags == {JSBool(TRUE), JSBool(FALSE)}

Durations == {JSInt(30), JSInt(1000)}

(***************************************************************************)
(* The specification                                                       *)
(***************************************************************************)
Init ==
  /\ \E a \in NodeAddresses, d \in DeserializeArgs :
       /\ newArgs = <<a, d>>
       /\ client = constructor(a, d)
  /\ banList = NewBanList
  /\ calls = <<>>
  /\ sends = <<>>
  /\ posts = <<>>

\* a caller invokes rpc._send(method, params, isJSONRPC)
SendCall ==
  /\ Len(calls) < MaxCalls
  /\ \E m \in Methods, p \in ParamValues, j \in ConventionArgs :
       _send("_send", <<m, p, j>>, m, p, j)

GetBlockTemplateCall ==
  /\ Len(calls) < MaxCalls
  /\ \E a \in TemplateArgs : getBlockTemplate(a)

GetBlockCountCall == Len(calls) < MaxCalls /\ getBlockCount

OnGetBlockHashCall == Len(calls) < MaxCalls /\ \E h \in Heights : onGetBlockHash(h)

SubmitBlockCall == Len(calls) < MaxCalls /\ \E b \in BlockBlobs : submitBlock(b)

GetLastBlockHeaderCall == Len(calls) < MaxCalls /\ getLastBlockHeader

GetBlockHeaderByHashCall ==
  Len(calls) < MaxCalls /\ \E h \in HashArgs : getBlockHeaderByHash(h)

GetBlockHeaderByHeightCall ==
  Len(calls) < MaxCalls /\ \E h \in HeightArgs : getBlockHeaderByHeight(h)

GetBlockCall == Len(calls) < MaxCalls /\ \E h \in BlockArgs : getBlock(h, JSUndefined)

GetConnectionsCall == Len(calls) < MaxCalls /\ getConnections

GetInfoCall == Len(calls) < MaxCalls /\ getInfo

HardForkInfoCall == Len(calls) < MaxCalls /\ hardForkInfo

SetBansCall == Len(calls) < MaxCalls /\ \E n \in BanLists : setBans(n)

GetBansCall == Len(calls) < MaxCalls /\ getBans

GetHeightCall == Len(calls) < MaxCalls /\ getHeight

GetTransactionsCall ==
  Len(calls) < MaxCalls /\ \E a \in TransactionsArgs : getTransactions(a)

IsKeyImageSpentCall ==
  Len(calls) < MaxCalls /\ \E a \in KeyImagesArgs : isKeyImageSpent(a)

SendRawTransactionCall ==
  Len(calls) < MaxCalls /\ \E a \in RawTransactionArgs : sendRawTransaction(a)

GetTransactionPoolCall == Len(calls) < MaxCalls /\ getTransactionPool

StopDaemonCall == Len(calls) < MaxCalls /\ stopDaemon

\* a call of one of the public operations
PublicCall ==
  \/ GetBlockCountCall \/ OnGetBlockHashCall \/ GetBlockTemplateCall
  \/ SubmitBlockCall \/ GetLastBlockHeaderCall \/ GetBlockHeaderByHashCall
  \/ GetBlockHeaderByHeightCall \/ GetBlockCall \/ GetConnectionsCall
  \/ GetInfoCall \/ HardForkInfoCall \/ SetBansCall \/ GetBansCall
  \/ GetHeightCall \/ GetTransactionsCall \/ IsKeyImageSpentCall
  \/ SendRawTransactionCall \/ GetTransactionPoolCall \/ StopDaemonCall

TransportReply ==
  \E k \in 1..Len(posts), r \in Replies : Respond(k, r.err, r.res, r.data)

Next == SendCall \/ PublicCall \/ TransportReply

Spec == Init /\ [][Next]_vars

\* bound on the number of calls of the specification with several calls
MaxConcurrent == 2

\* several calls on one client, in flight together: Structured-RPC and
\* Direct-RPC ones, and one whose params cannot be serialized
ConcurrentCall ==
  /\ Len(calls) < MaxConcurrent
  /\ \/ getBlockCount
     \/ onGetBlockHash(JSInt(1000))
     \/ getHeight
     \/ _send("_send", <<JSStr(<<"getheight">>), CyclicParams, JSBool(FALSE)>>,
              JSStr(<<"getheight">>), CyclicParams, JSBool(FALSE))

\* the transport answers with a status code that does not go with the body
HttpStatusReply ==
  \E k \in 1..Len(posts), r \in HttpStatusReplies : Respond(k, r.err, r.res, r.data)

NextConcurrent == ConcurrentCall \/ TransportReply \/ HttpStatusReply

SpecConcurrent == Init /\ [][NextConcurrent]_vars

\* the transport invokes the callback of every request it was handed
SpecConcurrentLive == SpecConcurrent /\ WF_vars(TransportReply \/ HttpStatusReply)

\* bound on the number of calls of add
MaxAdds == 2

\* a caller invokes banList.add(ip, ban, seconds), which returns undefined
BanListAdd ==
  /\ Len(calls) < MaxAdds
  /\ \E ip \in Ips, ban \in BanFlags, seconds \in Durations :
       /\ banList' = add(banList, ip, ban, seconds)
       /\ calls' = Append(calls, NewCall("add", <<ip, ban, seconds>>, "returned", JSUndefined))
  /\ UNCHANGED <<newArgs, client, sends, posts>>

NextBanList == BanListAdd

SpecBanList == Init /\ [][NextBanList]_vars

(***************************************************************************)
(* Properties                                                              *)
(***************************************************************************)
\* the posts made for call i
PostsOf(i) == {k \in 1..Len(posts) : posts[k].call = i}

\* the invocations of _send made for call i
SendsOf(i) == {k \in 1..Len(sends) : sends[k].call = i}

\* the base address the client was constructed with
NodeAddressText == GetProp(client, "nodeAddress").v

\* a direct call of _send under the Structured-RPC / Direct-RPC convention
IsStructuredSend(i) ==
  calls[i].op = "_send" /\ calls[i].args[3] \in {JSUndefined, JSBool(TRUE)}

IsDirectSend(i) == calls[i].op = "_send" /\ calls[i].args[3] = JSBool(FALSE)

\* the text of {"jsonrpc":"2.0","id":"0","method":<method>
EnvelopeHead(method) ==
  <<"{", "\"", "jsonrpc", "\"", ":", "\"", "2.0", "\"", ",",
    "\"", "id", "\"", ":", "\"", "0", "\"", ",",
    "\"", "method", "\"", ":", "\"">> \o method.v \o <<"\"">>

\* the text of the envelope around params: the params member is left out
\* when params has no JSON text
EnvelopeText(method, params) ==
  EnvelopeHead(method)
    \o (IF JSONStringify(params).r = "text"
        THEN <<",", "\"", "params", "\"", ":">> \o JSONStringify(params).s
        ELSE <<>>)
    \o <<"}">>

\* C1: every request posted for a Structured-RPC call of _send has the url
\* nodeAddress + "/json_rpc" and, as body, the JSON text of the envelope
\* {jsonrpc: "2.0", id: "0", method, params} with the method and params
\* that were passed to _send; read back, the body gives these values
\* (params as far as JSON keeps it: its JSON text is the same).
C1_StructuredRequest ==
  \A k \in 1..Len(posts) :
    LET i == posts[k].call
        req == posts[k].req
        back == JSONParse(req.body)
    IN IsStructuredSend(i) =>
         /\ req.url = NodeAddressText \o <<"/json_rpc">>
         /\ req.hasBody
         /\ req.body = JSStr(EnvelopeText(calls[i].args[1], calls[i].args[2]))
         /\ back.ok
         /\ GetProp(back.val, "jsonrpc") = JSStr(<<"2.0">>)
         /\ GetProp(back.val, "id") = JSStr(<<"0">>)
         /\ GetProp(back.val, "method") = calls[i].args[1]
         /\ JSONStringify(GetProp(back.val, "params")) = JSONStringify(calls[i].args[2])

\* C1 witness: _send('getblockcount', [1000]) with isJSONRPC left out has
\* posted {"jsonrpc":"2.0","id":"0","method":"getblockcount","params":[1000]}
C1_Witness ==
  \E k \in 1..Len(posts) :
    /\ IsStructuredSend(posts[k].call)
    /\ calls[posts[k].call].args[3] = JSUndefined
    /\ posts[k].req.body =
         JSStr(EnvelopeHead(JSStr(<<"getblockcount">>))
                 \o <<",", "\"", "params", "\"", ":", "[", "1", "0", "0", "0", "]", "}">>)

\* C2: every request posted for a Direct-RPC call of _send has the url
\* nodeAddress + "/" + method; it has no body when params is undefined, and
\* otherwise its body is the JSON text of params alone, without envelope.
C2_DirectRequest ==
  \A i \in 1..Len(calls) :
    (IsDirectSend(i) /\ JSONStringify(calls[i].args[2]).r # "throws") =>
      /\ Cardinality(PostsOf(i)) = 1
      /\ \A k \in PostsOf(i) :
           LET req == posts[k].req
               params == calls[i].args[2]
           IN /\ req.url = NodeAddressText \o <<"/">> \o calls[i].args[1].v
              /\ params = JSUndefined => ~req.hasBody /\ req.body = JSUndefined
              /\ params # JSUndefined =>
                   /\ req.hasBody
                   /\ req.body = JSStr(JSONStringify(params).s)
                   /\ JSONParse(req.body).ok
                   /\ JSONStringify(JSONParse(req.body).val) = JSONStringify(params)
                   /\ GetProp(JSONParse(req.body).val, "jsonrpc") = JSUndefined
                   /\ GetProp(JSONParse(req.body).val, "method") = JSUndefined

\* C2 witness: _send(method, {height: 912345, hash: undefined}, false) has posted the bare
\* body {"height":912345} to nodeAddress + "/" + method
C2_Witness ==
  \E k \in 1..Len(posts) :
    /\ IsDirectSend(posts[k].call)
    /\ posts[k].req.url = NodeAddressText \o <<"/", "getheight">>
    /\ posts[k].req.body =
         JSStr(<<"{", "\"", "height", "\"", ":", "9", "1", "2", "3", "4", "5", "}">>)

\* the value of the decode flag the client was constructed with
DecodeFlag == GetProp(client, "deserializeJSON")

\* post k was answered without a transport error
Succeeded(k) == posts[k].replied /\ ~Truthy(posts[k].err)

\* C3: on a client with deserializeJSON = true, a call whose transport
\* succeeds with a body that is valid JSON resolves with the parsed value,
\* not with the raw string.
C3_DecodedWhenEnabled ==
  \A k \in 1..Len(posts) :
    (DecodeFlag = JSBool(TRUE) /\ Succeeded(k) /\ JSONParse(posts[k].data).ok) =>
      /\ calls[posts[k].call].state = "resolved"
      /\ calls[posts[k].call].value = JSONParse(posts[k].data).val
      /\ calls[posts[k].call].value.t # "string"

\* C4: on a client with deserializeJSON = false, every call whose transport
\* succeeds resolves with exactly the body string the transport delivered.
C4_RawWhenDisabled ==
  \A k \in 1..Len(posts) :
    (DecodeFlag = JSBool(FALSE) /\ Succeeded(k)) =>
      /\ calls[posts[k].call].state = "resolved"
      /\ calls[posts[k].call].value = posts[k].data

\* C4 witness: with deserializeJSON = false the body
\* {"status": "OK","count":9933} was delivered and is the resolved value
C4_Witness ==
  \E k \in 1..Len(posts) :
    /\ DecodeFlag = JSBool(FALSE)
    /\ Succeeded(k)
    /\ posts[k].data = JSStr(BlockCountBody)
    /\ calls[posts[k].call].state = "resolved"
    /\ calls[posts[k].call].value = JSStr(BlockCountBody)

\* C5: on a client with deserializeJSON = true, a call whose transport
\* succeeds with a body that is no JSON is rejected, and never resolved
\* with the unparsed body.
C5_DecodeFailureRejects ==
  \A k \in 1..Len(posts) :
    (DecodeFlag = JSBool(TRUE) /\ Succeeded(k) /\ ~JSONParse(posts[k].data).ok) =>
      /\ calls[posts[k].call].state = "rejected"
      /\ calls[posts[k].call].value = SyntaxError

\* C6: when the transport calls back with an error, the call's promise is
\* rejected with that same error value, and is not resolved.
C6_TransportErrorRejects ==
  \A k \in 1..Len(posts) :
    (posts[k].replied /\ Truthy(posts[k].err)) =>
      /\ calls[posts[k].call].state = "rejected"
      /\ calls[posts[k].call].value = posts[k].err

\* C6 witness: the transport failed with ECONNREFUSED while handing over a
\* body, and the call is rejected with that error
C6_Witness ==
  \E k \in 1..Len(posts) :
    /\ posts[k].replied
    /\ posts[k].err = TransportError
    /\ posts[k].data = JSStr(HtmlBody)
    /\ calls[posts[k].call].state = "rejected"
    /\ calls[posts[k].call].value = TransportError

\* C7: when JSON.stringify throws on the params of a _send, under either
\* convention, _send does not throw: the promise it returns is rejected
\* with an error, and no request is posted for that call.
C7_UnserializableRejects ==
  \A n \in 1..Len(sends) :
    LET i == sends[n].call
    IN (JSONStringify(sends[n].params).r = "throws") =>
         /\ calls[i].state = "rejected"
         /\ calls[i].value.t = "error"
         /\ PostsOf(i) = {}

\* C7 witness: _send was called with a cyclic params under the Direct-RPC
\* convention and its promise is rejected
C7_Witness ==
  \E i \in 1..Len(calls) :
    /\ IsDirectSend(i)
    /\ calls[i].args[2] = CyclicParams
    /\ calls[i].state = "rejected"
    /\ calls[i].value = JSError("Error", <<"TypeError", ": ", "Converting circular structure to JSON">>)

\* the arguments C8 is about: a value that is not an object (a string, a
\* number, a boolean, a function), or an object whose wallet_address is
\* missing, not a string or empty, or whose reserve_size is missing, not a
\* number or not whole.  The absent argument (undefined, null) is C9's.
BadTemplateArgs(a) ==
  \/ a.t \in {"string", "number", "boolean", "function"}
  \/ /\ a.t = "object"
     /\ \/ ~HasProp(a, "wallet_address")
        \/ GetProp(a, "wallet_address").t # "string"
        \/ GetProp(a, "wallet_address") = JSStr(<<>>)
        \/ ~HasProp(a, "reserve_size")
        \/ GetProp(a, "reserve_size").t # "number"
        \/ GetProp(a, "reserve_size").v[3] # <<>>

\* C8: getBlockTemplate(args) with such an argument returns a promise
\* rejected with the validation error and posts no request.
C8_InvalidArgsRejected ==
  \A i \in 1..Len(calls) :
    (calls[i].op = "getBlockTemplate" /\ BadTemplateArgs(calls[i].args[1])) =>
      /\ calls[i].state = "rejected"
      /\ calls[i].value = JSError("Error", errMess)
      /\ PostsOf(i) = {}
      /\ SendsOf(i) = {}

\* C8 witness: getBlockTemplate was called with reserve_size 8.5 and is
\* rejected without a post
C8_Witness ==
  \E i \in 1..Len(calls) :
    /\ calls[i].op = "getBlockTemplate"
    /\ HasProp(calls[i].args[1], "wallet_address")
    /\ GetProp(calls[i].args[1], "reserve_size") = JSNum(FALSE, 8, <<5>>)
    /\ calls[i].state = "rejected"
    /\ PostsOf(i) = {}

\* C9: getBlockTemplate called with no argument or with null returns a
\* rejected promise; it does not throw and posts no request.
C9_AbsentArgsRejected ==
  \A i \in 1..Len(calls) :
    (calls[i].op = "getBlockTemplate" /\ calls[i].args[1] \in {JSUndefined, JSNull}) =>
      /\ calls[i].state = "rejected"
      /\ PostsOf(i) = {}

\* an object with a non-empty string wallet_address and a whole reserve_size
GoodTemplateArgs(a) ==
  /\ a.t = "object"
  /\ GetProp(a, "wallet_address").t = "string"
  /\ GetProp(a, "wallet_address").v # <<>>
  /\ GetProp(a, "reserve_size").t = "number"
  /\ GetProp(a, "reserve_size").v[3] = <<>>

\* call i was handed on to _send with args as params, posted exactly one
\* Structured-RPC request for "getblocktemplate" carrying args, and is not
\* settled before the transport answers
TemplateRequestPosted(i) ==
  /\ \A n \in SendsOf(i) :
       /\ sends[n].method = JSStr(<<"getblocktemplate">>)
       /\ sends[n].params = calls[i].args[1]
  /\ Cardinality(SendsOf(i)) = 1
  /\ Cardinality(PostsOf(i)) = 1
  /\ \A k \in PostsOf(i) :
       /\ posts[k].req.url = NodeAddressText \o <<"/json_rpc">>
       /\ posts[k].req.body =
            JSStr(EnvelopeText(JSStr(<<"getblocktemplate">>), calls[i].args[1]))
       /\ GetProp(JSONParse(posts[k].req.body).val, "method") = JSStr(<<"getblocktemplate">>)
       /\ JSONStringify(GetProp(JSONParse(posts[k].req.body).val, "params"))
            = JSONStringify(calls[i].args[1])
       /\ ~posts[k].replied => calls[i].state = "pending"

\* C10, as stated: getBlockTemplate(args) with any such object is not
\* rejected locally and posts exactly one Structured-RPC request with
\* method "getblocktemplate" and args as params.
C10_ValidArgsPosted ==
  \A i \in 1..Len(calls) :
    (calls[i].op = "getBlockTemplate" /\ GoodTemplateArgs(calls[i].args[1])) =>
      TemplateRequestPosted(i)

\* C10, amended: the same for every such object that JSON.stringify can
\* serialize (an args object holding a cycle is rejected by _send, C7).
C10_ValidSerializableArgsPosted ==
  \A i \in 1..Len(calls) :
    (/\ calls[i].op = "getBlockTemplate"
     /\ GoodTemplateArgs(calls[i].args[1])
     /\ JSONStringify(calls[i].args[1]).r # "throws") =>
      TemplateRequestPosted(i)

\* C10 witness: getBlockTemplate({wallet_address, reserve_size: 8}) has
\* posted its request and is pending
C10_Witness ==
  \E i \in 1..Len(calls) :
    /\ calls[i].op = "getBlockTemplate"
    /\ calls[i].args[1] =
         JSObj(<< <<"wallet_address", WALLET_ADDRESS>>, <<"reserve_size", JSInt(8)>> >>)
    /\ calls[i].state = "pending"
    /\ Cardinality(PostsOf(i)) = 1

\* C11: every public operation, for every argument including a missing
\* one, returns a promise: no call throws to its caller.
C11_NoSynchronousThrow ==
  \A i \in 1..Len(calls) : calls[i].state # "thrown"

\* the build of the request of send n succeeds
BuildSucceeds(n) ==
  ~(IF Truthy(sends[n].isJSONRPC)
    THEN JSONStringify(sends[n].params).r = "throws"
    ELSE sends[n].params # JSUndefined /\ JSONStringify(sends[n].params).r = "throws")

\* C12: each invocation of _send whose request is built performs exactly
\* one POST, and the others none: the number of posts equals the number of
\* such invocations, also after transport failures and unparsable bodies.
C12_OnePostPerSend ==
  /\ \A n \in 1..Len(sends) :
       Cardinality(PostsOf(sends[n].call)) = IF BuildSucceeds(n) THEN 1 ELSE 0
  /\ \A i \in 1..Len(calls) : Cardinality(SendsOf(i)) <= 1
  /\ Len(posts) = Cardinality({n \in 1..Len(sends) : BuildSucceeds(n)})

\* C12 witness: two requests are posted, the first has failed in the
\* transport, the second got a body that is no JSON, and there are still
\* exactly two posts
C12_Witness ==
  /\ Len(sends) = 2
  /\ Len(posts) = 2
  /\ posts[1].replied /\ posts[1].err = TransportError
  /\ posts[2].replied /\ posts[2].err = JSNull /\ posts[2].data = JSStr(HtmlBody)

\* the operations that use the Structured-RPC convention
StructuredOps ==
  {"getBlockCount", "onGetBlockHash", "getBlockTemplate", "submitBlock",
   "getLastBlockHeader", "getBlockHeaderByHash", "getBlockHeaderByHeight",
   "getBlock", "getConnections", "getInfo", "hardForkInfo", "setBans", "getBans"}

\* the keys of an object
Keys(x) == {x.v[j][1] : j \in 1..Len(x.v)}

\* the request posted for call i is a Structured-RPC one
IsStructuredPost(k) ==
  \/ calls[posts[k].call].op \in StructuredOps
  \/ IsStructuredSend(posts[k].call)

\* C13, as stated: for every Structured-RPC request, also of a call without
\* params, the body read back has exactly the keys jsonrpc, id, method and
\* params, with jsonrpc = "2.0" and id = "0".
C13_FourKeys ==
  \A k \in 1..Len(posts) :
    IsStructuredPost(k) =>
      LET back == JSONParse(posts[k].req.body)
      IN /\ back.ok
         /\ Keys(back.val) = {"jsonrpc", "id", "method", "params"}
         /\ GetProp(back.val, "jsonrpc") = JSStr(<<"2.0">>)
         /\ GetProp(back.val, "id") = JSStr(<<"0">>)

\* C13, amended: the body read back has the keys jsonrpc, id and method,
\* with jsonrpc = "2.0" and id = "0", and the key params exactly when the
\* params given to _send is not undefined; a call without params posts
\* exactly the three keys jsonrpc, id, method.
C13_KeysOfEnvelope ==
  \A k \in 1..Len(posts) :
    IsStructuredPost(k) =>
      LET back == JSONParse(posts[k].req.body)
      IN /\ back.ok
         /\ GetProp(back.val, "jsonrpc") = JSStr(<<"2.0">>)
         /\ GetProp(back.val, "id") = JSStr(<<"0">>)
         /\ \A n \in SendsOf(posts[k].call) :
              /\ GetProp(back.val, "method") = sends[n].method
              /\ Keys(back.val) =
                   IF sends[n].params = JSUndefined
                   THEN {"jsonrpc", "id", "method"}
                   ELSE {"jsonrpc", "id", "method", "params"}

\* C13 witness: getBlockCount() has posted {"jsonrpc":"2.0","id":"0",
\* "method":"getblockcount"}
C13_Witness ==
  \E k \in 1..Len(posts) :
    /\ calls[posts[k].call].op = "getBlockCount"
    /\ posts[k].req.body = JSStr(EnvelopeHead(JSStr(<<"getblockcount">>)) \o <<"}">>)

\* resolve or reject was invoked at most once on every promise, and a
\* promise on which neither was invoked is pending
SettledAtMostOnce ==
  \A i \in 1..Len(calls) :
    /\ calls[i].settlements <= 1
    /\ calls[i].state \in {"resolved", "rejected"} <=> calls[i].settlements = 1

\* the value of a rejected promise is the error, never the body that came
\* with it
RejectedCarriesNoResponse ==
  \A i \in 1..Len(calls) :
    calls[i].state = "rejected" =>
      /\ calls[i].value.t = "error"
      /\ \A k \in PostsOf(i) : calls[i].value # posts[k].data

\* a call that is settled keeps its state and its value
SettledStaysSettled ==
  \A i \in 1..Len(calls) : calls[i].state # "pending" => calls'[i] = calls[i]

\* C14: the promise of a call is settled at most once and in one way only:
\* once resolved or rejected it never changes, so it is never both, and
\* after a rejection no response value reaches the caller.
C14_SettledOnce ==
  [](SettledAtMostOnce /\ RejectedCarriesNoResponse) /\ [][SettledStaysSettled]_vars

\* C14 witness: a call was rejected by a transport error that came with a
\* body, and another call was made after it
C14_Witness ==
  /\ Len(calls) = 2
  /\ calls[1].state = "rejected"
  /\ calls[1].value = TransportError
  /\ \E k \in PostsOf(1) : posts[k].data = JSStr(HtmlBody)
  /\ calls[2].state = "resolved"

\* the promise of call i agrees with what the transport answered to the
\* request of call i itself
SettledFromOwnReply(i) ==
  \A k \in PostsOf(i) :
    /\ ~posts[k].replied => calls[i].state = "pending"
    /\ posts[k].replied =>
         \/ calls[i].state = "rejected" /\ calls[i].value = posts[k].err
         \/ calls[i].state = "rejected" /\ ~JSONParse(posts[k].data).ok
              /\ calls[i].value = SyntaxError
         \/ calls[i].state = "resolved"
              /\ calls[i].value \in {posts[k].data, JSONParse(posts[k].data).val}

\* a step changes the promise of no call other than the one whose request
\* is answered in it, and leaves the client as it is
OnlyOwnCallChanges ==
  /\ client' = client
  /\ \A i \in 1..Len(calls) :
       calls'[i] # calls[i] =>
         \E k \in PostsOf(i) : ~posts[k].replied /\ posts'[k].replied

\* C15: with several calls in flight and the responses arriving in any
\* order, each promise is settled only from the reply to its own request;
\* a reply changes no other call, and the client itself is only read.
C15_CallsIndependent ==
  [](\A i \in 1..Len(calls) : SettledFromOwnReply(i)) /\ [][OnlyOwnCallChanges]_vars

\* C15 witness: two requests are in flight and the second was answered
\* first: call 2 is resolved with its body while call 1 is pending
C15_Witness ==
  /\ Len(posts) = 2
  /\ posts[1].call = 1 /\ ~posts[1].replied /\ calls[1].state = "pending"
  /\ posts[2].call = 2 /\ posts[2].replied /\ calls[2].state = "resolved"
  /\ calls[2].value = posts[2].data

\* every request posted targets the base address of the client
PostsTargetNodeAddress ==
  \A k \in 1..Len(posts) :
    SubSeq(posts[k].req.url, 1, Len(NodeAddressText)) = NodeAddressText

\* C16: whatever the operations made on a client (successful, rejected or
\* throwing), nodeAddress and deserializeJSON keep the values given at
\* construction, and every request targets that base address.
C16_ConfigurationFixed == [] PostsTargetNodeAddress /\ [][client' = client]_vars

\* C16 witness: on a client built with (address, false) a request was
\* posted and answered, and the client still holds both values
C16_Witness ==
  /\ client = constructor(JSStr(<<"http://node.example:18089">>), JSBool(FALSE))
  /\ \E k \in 1..Len(posts) : posts[k].replied

\* the operations that use the Direct-RPC convention, with the method each
\* one names on the wire
DirectMethod ==
  [getHeight |-> "getheight", getTransactions |-> "gettransactions",
   isKeyImageSpent |-> "is_key_image_spent",
   sendRawTransaction |-> "sendrawtransaction",
   getTransactionPool |-> "get_transaction_pool", stopDaemon |-> "stop_daemon"]

DirectOps == DOMAIN DirectMethod

\* the body of the request is an envelope: an object with jsonrpc and method
IsEnvelopeBody(req) ==
  /\ req.hasBody
  /\ LET back == JSONParse(req.body)
     IN /\ back.ok
        /\ back.val.t = "object"
        /\ {"jsonrpc", "id", "method"} \subseteq Keys(back.val)

\* C17: every request of a Direct operation goes to nodeAddress/<method>
\* with a bare body, every request of another public operation goes to
\* nodeAddress/json_rpc with an envelope, and no request mixes the two.
C17_OneConvention ==
  \A k \in 1..Len(posts) :
    LET op == calls[posts[k].call].op
        req == posts[k].req
        envelope == IsEnvelopeBody(req)
    IN /\ op \in DirectOps =>
            /\ req.url = NodeAddressText \o <<"/", DirectMethod[op]>>
            /\ ~envelope
       /\ op \in StructuredOps =>
            /\ req.url = NodeAddressText \o <<"/json_rpc">>
            /\ envelope
       /\ envelope <=> req.url = NodeAddressText \o <<"/json_rpc">>

\* C17 witness: getTransactions has posted its bare object to
\* nodeAddress/gettransactions
C17_Witness ==
  \E k \in 1..Len(posts) :
    /\ calls[posts[k].call].op = "getTransactions"
    /\ posts[k].req.url = NodeAddressText \o <<"/", "gettransactions">>
    /\ posts[k].req.hasBody
    /\ HasProp(JSONParse(posts[k].req.body).val, "txs_hashes")

\* C18: onGetBlockHash(h) posts one request, to nodeAddress + "/json_rpc",
\* whose body is the envelope with method "on_getblockhash" and params the
\* one-element array [h].
C18_OnGetBlockHashRequest ==
  \A i \in 1..Len(calls) :
    calls[i].op = "onGetBlockHash" =>
      /\ calls[i].state # "thrown"
      /\ Cardinality(PostsOf(i)) = 1
      /\ \A k \in PostsOf(i) :
           /\ posts[k].req.url = NodeAddressText \o <<"/json_rpc">>
           /\ posts[k].req.body =
                JSStr(EnvelopeText(JSStr(<<"on_getblockhash">>), JSArr(<<calls[i].args[1]>>)))
           /\ LET back == JSONParse(posts[k].req.body).val
              IN /\ GetProp(back, "method") = JSStr(<<"on_getblockhash">>)
                 /\ GetProp(back, "params").t = "array"
                 /\ Len(GetProp(back, "params").v) = 1

\* C18 witness: with the base address http://node.example:18089 and the
\* height 1000, the url is http://node.example:18089/json_rpc and the body
\* ends with "params":[1000]}
C18_Witness ==
  \E k \in 1..Len(posts) :
    /\ calls[posts[k].call].op = "onGetBlockHash"
    /\ calls[posts[k].call].args = <<JSInt(1000)>>
    /\ posts[k].req.url = <<"http://node.example:18089", "/json_rpc">>
    /\ posts[k].req.body =
         JSStr(EnvelopeHead(JSStr(<<"on_getblockhash">>))
               \o <<",", "\"", "params", "\"", ":", "[", "1", "0", "0", "0", "]", "}">>)

\* the send made for the request of post k
SendOfPost(k) == CHOOSE n \in SendsOf(posts[k].call) : TRUE

\* C19: two requests built on the same client from the same method, params
\* and convention have the same url and the same body.
C19_BuildIsRepeatable ==
  \A k, l \in 1..Len(posts) :
    ( /\ sends[SendOfPost(k)].method = sends[SendOfPost(l)].method
      /\ sends[SendOfPost(k)].params = sends[SendOfPost(l)].params
      /\ Truthy(sends[SendOfPost(k)].isJSONRPC) = Truthy(sends[SendOfPost(l)].isJSONRPC) )
    => posts[k].req = posts[l].req

\* C19 witness: the same request was built twice, the second time after the
\* first one was answered
C19_Witness ==
  /\ Len(posts) = 2
  /\ sends[SendOfPost(1)].method = sends[SendOfPost(2)].method
  /\ sends[SendOfPost(1)].params = sends[SendOfPost(2)].params
  /\ sends[SendOfPost(1)].isJSONRPC = sends[SendOfPost(2)].isJSONRPC
  /\ posts[1].replied
  /\ posts[1].req.hasBody

\* C20: submitBlock(blob) with a blob string returns a promise and posts
\* one Structured-RPC request with method "submitblock" and params the blob.
C20_SubmitBlockPosts ==
  \A i \in 1..Len(calls) :
    (calls[i].op = "submitBlock" /\ TypeOf(calls[i].args[1]) = "string") =>
      /\ calls[i].state # "thrown"
      /\ Cardinality(PostsOf(i)) = 1
      /\ \A k \in PostsOf(i) :
           /\ posts[k].req.url = NodeAddressText \o <<"/json_rpc">>
           /\ posts[k].req.body =
                JSStr(EnvelopeText(JSStr(<<"submitblock">>), calls[i].args[1]))

\* C21: getBlockHeaderByHeight(arg) with an object posts one Structured-RPC
\* request with method "getblockheaderbyheight" and the object as params.
C21_HeaderByHeightSendsArg ==
  \A i \in 1..Len(calls) :
    (calls[i].op = "getBlockHeaderByHeight" /\ TypeOf(calls[i].args[1]) = "object") =>
      /\ Cardinality(PostsOf(i)) = 1
      /\ \A k \in PostsOf(i) :
           /\ posts[k].req.url = NodeAddressText \o <<"/json_rpc">>
           /\ posts[k].req.body =
                JSStr(EnvelopeText(JSStr(<<"getblockheaderbyheight">>), calls[i].args[1]))

\* C22: getBlock({height: h}) posts one Structured-RPC request with method
\* "getblock" whose params is the object {height: h}, height being the
\* number h.
C22_GetBlockSendsHeight ==
  \A i \in 1..Len(calls) :
    (calls[i].op = "getBlock" /\ TypeOf(calls[i].args[1]) = "object") =>
      /\ Cardinality(PostsOf(i)) = 1
      /\ \A k \in PostsOf(i) :
           /\ posts[k].req.url = NodeAddressText \o <<"/json_rpc">>
           /\ posts[k].req.body =
                JSStr(EnvelopeText(JSStr(<<"getblock">>), calls[i].args[1]))
           /\ LET back == JSONParse(posts[k].req.body).val
              IN GetProp(GetProp(back, "params"), "height") =
                   GetProp(calls[i].args[1], "height")

\* C23: setBans(list) with a ban list returns a promise and posts one
\* Structured-RPC request with method "setbans" and the list as params.
C23_SetBansPosts ==
  \A i \in 1..Len(calls) :
    (calls[i].op = "setBans" /\ TypeOf(calls[i].args[1]) = "object") =>
      /\ calls[i].state # "thrown"
      /\ Cardinality(PostsOf(i)) = 1
      /\ \A k \in PostsOf(i) :
           /\ posts[k].req.url = NodeAddressText \o <<"/json_rpc">>
           /\ posts[k].req.body =
                JSStr(EnvelopeText(JSStr(<<"setbans">>), calls[i].args[1]))

\* C24: getTransactions({txs_hashes, decode_as_json}) posts one request to
\* nodeAddress/gettransactions whose body is the JSON text of an object
\* with exactly the fields txs_hashes and decode_as_json, decode_as_json
\* being true when the caller left it out and the caller's value otherwise.
C24_GetTransactionsBody ==
  \A i \in 1..Len(calls) :
    (calls[i].op = "getTransactions" /\ CanGetProp(calls[i].args[1])
       /\ HasProp(calls[i].args[1], "txs_hashes")) =>
      /\ Cardinality(PostsOf(i)) = 1
      /\ \A k \in PostsOf(i) :
           /\ posts[k].req.url = NodeAddressText \o <<"/", "gettransactions">>
           /\ posts[k].req.hasBody
           /\ LET back == JSONParse(posts[k].req.body)
                  arg == calls[i].args[1]
              IN /\ back.ok
                 /\ Keys(back.val) = {"txs_hashes", "decode_as_json"}
                 /\ GetProp(back.val, "txs_hashes") = GetProp(arg, "txs_hashes")
                 /\ GetProp(back.val, "decode_as_json") =
                      IF HasProp(arg, "decode_as_json")
                      THEN GetProp(arg, "decode_as_json")
                      ELSE JSBool(TRUE)

\* C24 witness: getTransactions was called with decode_as_json: false and
\* the body posted carries false
C24_Witness ==
  \E k \in 1..Len(posts) :
    /\ calls[posts[k].call].op = "getTransactions"
    /\ GetProp(calls[posts[k].call].args[1], "decode_as_json") = JSBool(FALSE)
    /\ GetProp(JSONParse(posts[k].req.body).val, "decode_as_json") = JSBool(FALSE)

Bans == GetProp(banList, "bans").v

\* bans holds one entry per call of add, in call order
BansAreTheAdds ==
  /\ Len(Bans) = Len(calls)
  /\ \A j \in 1..Len(calls) :
       /\ calls[j].op = "add"
       /\ Bans[j] = BanEntry(calls[j].args[1], calls[j].args[2], calls[j].args[3])

\* a step adds one entry at the end and leaves the earlier ones as they are
AddAppendsOne ==
  LET after == GetProp(banList', "bans").v
  IN banList' # banList =>
       /\ Len(after) = Len(Bans) + 1
       /\ \A j \in 1..Len(Bans) : after[j] = Bans[j]

\* C26: after n calls of add on a new BanList, bans has n entries, the
\* entry {ip, ban, seconds} of each call in call order, duplicates kept;
\* each call appends one entry and changes or removes no earlier one.
C26_AddAppends == [] BansAreTheAdds /\ [][AddAppendsOne]_vars

\* C26 witness: the same entry was added twice and bans holds it twice
C26_Witness ==
  /\ Len(calls) = 2
  /\ calls[1].args = calls[2].args
  /\ Len(Bans) = 2
  /\ Bans[1] = Bans[2]

\* C27: every call whose request was posted eventually has its promise
\* settled, the transport invoking the callback of every request.
C27_PostedCallsSettle ==
  \A i \in 1..MaxConcurrent :
    (i <= Len(calls) /\ PostsOf(i) # {})
      ~> (i <= Len(calls) /\ calls[i].state \in {"resolved", "rejected"})

\* C27 witness: all requests were answered, one by a transport error and
\* one by a body, and no promise is pending
C27_Witness ==
  /\ Len(posts) = MaxConcurrent
  /\ \A k \in 1..Len(posts) : posts[k].replied
  /\ \E k \in 1..Len(posts) : Truthy(posts[k].err)
  /\ \E k \in 1..Len(posts) : ~Truthy(posts[k].err)
  /\ \A i \in 1..Len(calls) : calls[i].state # "pending"

\* C28: on a client constructed with a wallet-address string as second
\* argument, every call that succeeds is resolved with the body as the
\* transport delivered it, a string, not with a parsed object.
C28_TextWhenWalletGiven ==
  TypeOf(newArgs[2]) = "string" =>
    \A i \in 1..Len(calls) :
      calls[i].state = "resolved" =>
        /\ TypeOf(calls[i].value) = "string"
        /\ \E k \in PostsOf(i) : posts[k].replied /\ calls[i].value = posts[k].data

\* C28 witness: as in the tests, getBlockCount() on such a client was
\* resolved with the text {"status": "OK","count":9933}
C28_Witness ==
  /\ newArgs[2] = WALLET_ADDRESS
  /\ \E i \in 1..Len(calls) :
       /\ calls[i].op = "getBlockCount"
       /\ calls[i].state = "resolved"
       /\ calls[i].value = JSStr(BlockCountBody)

\* the HTTP status code of the reply to post k
StatusCode(k) == GetProp(posts[k].res, "statusCode")

\* C29: the outcome of a call depends on the err and the body of the reply
\* only: two replies with the same err and body settle their calls alike
\* whatever their status codes, and a reply without err is resolved, also
\* when its status code is not 2xx.
C29_StatusCodeIgnored ==
  /\ \A k, l \in 1..Len(posts) :
       (posts[k].replied /\ posts[l].replied
          /\ posts[k].err = posts[l].err /\ posts[k].data = posts[l].data) =>
         /\ calls[posts[k].call].state = calls[posts[l].call].state
         /\ calls[posts[k].call].value = calls[posts[l].call].value
  /\ \A k \in 1..Len(posts) :
       (posts[k].replied /\ ~Truthy(posts[k].err)) =>
         calls[posts[k].call].state = "resolved"

\* C29 witness: the same body came with status 200 for one call and with
\* status 500 for another, and both are resolved with it
C29_Witness ==
  \E k, l \in 1..Len(posts) :
    /\ posts[k].replied /\ posts[l].replied
    /\ posts[k].data = JSStr(BlockCountBody) /\ posts[l].data = JSStr(BlockCountBody)
    /\ StatusCode(k) = JSInt(200) /\ StatusCode(l) = JSInt(500)
    /\ calls[posts[k].call].state = "resolved" /\ calls[posts[l].call].state = "resolved"
    /\ calls[posts[k].call].value = calls[posts[l].call].value

\* every request posted was built without error, a promise is resolved only
\* if its request was answered without err, and a reply with err rejects
\* with that err, whatever body came with it
BuiltPostedSettled ==
  /\ \A k \in 1..Len(posts) :
       /\ \A n \in SendsOf(posts[k].call) : BuildSucceeds(n)
       /\ (posts[k].replied /\ Truthy(posts[k].err)) =>
            /\ calls[posts[k].call].state = "rejected"
            /\ calls[posts[k].call].value = posts[k].err
  /\ \A i \in 1..Len(calls) :
       calls[i].state = "resolved" =>
         \E k \in PostsOf(i) : posts[k].replied /\ ~Truthy(posts[k].err)

\* a promise becomes resolved only in the step in which the callback of its
\* request is invoked, and a request is posted only in the step of its call
ResolvedByCallbackOnly ==
  /\ \A i \in 1..Len(calls') :
       (calls'[i].state = "resolved" /\ (i > Len(calls) \/ calls[i].state # "resolved")) =>
         \E k \in 1..Len(posts) :
           posts[k].call = i /\ ~posts[k].replied /\ posts'[k].replied
  /\ \A k \in 1..Len(posts') :
       k > Len(posts) => posts'[k].call > Len(calls) /\ ~posts'[k].replied

\* C30: within a call the request is posted only after it was built without
\* error, the promise is resolved only by the response callback, and a
\* reply with a transport error rejects with it: the body that came with it
\* is neither decoded nor delivered.
C30_BuildPostSettle == [] BuiltPostedSettled /\ [][ResolvedByCallbackOnly]_vars

\* C30 witness: the request of getInfo() was posted and answered with a
\* transport error together with a body; the promise is rejected with the
\* error
C30_Witness ==
  \E k \in 1..Len(posts) :
    /\ calls[posts[k].call].op = "getInfo"
    /\ posts[k].replied
    /\ posts[k].err = TransportError
    /\ posts[k].data = JSStr(HtmlBody)
    /\ calls[posts[k].call].state = "rejected"
    /\ calls[posts[k].call].value = TransportError

=============================================================================
